---------------------------- MODULE Spec2Model ----------------------------
(***************************************************************************)
(* A model of the "got" object store (hectorlorenzo/rust_git):             *)
(*   - GitObject framing and hashing            (src/src/git_object.rs)    *)
(*   - the KVLM parser / serializer             (src/src/git_object.rs)    *)
(*   - Repository create / repo_find / object_write / object_read          *)
(*                                              (src/src/repository.rs)    *)
(* Byte strings are sequences of one-character strings.  A filesystem is a *)
(* record [dirs, files]: the set of directory paths and a function from    *)
(* file paths to file contents; a path is the sequence of its components   *)
(* below the filesystem root (the root itself is << >>).  The variable     *)
(* last holds the last call made: its name, its arguments and what it      *)
(* returned (an Ok / Some / None / Err value, or a panic).  The variable   *)
(* pc holds the position of every call that is taken step by step; it is   *)
(* empty where calls are taken whole.                                      *)
(*                                                                         *)
(* Six specifications:                                                     *)
(*   Spec      the object store of one repository, where object files may  *)
(*             also be written by hand;                                    *)
(*   SpecRepo  create, repo_find and object_write in a directory tree;     *)
(*   SpecKvlm  kvlm_parser and kvlm_serialize on every short text;         *)
(*   SpecFind  repo_find taken one call of its recursion at a time;        *)
(*   SpecTypes the frames and digests of every object type of the source   *)
(*             (git_object.rs, object/blob.rs, object/tree.rs,             *)
(*             objects/blob.rs);                                           *)
(*   SpecRace  two writers running object_write one file-system call at a  *)
(*             time.                                                       *)
(***************************************************************************)
EXTENDS Naturals, Sequences, FiniteSets, TLC

VARIABLES fs, last, pc

vars == <<fs, last, pc>>

(***************************************************************************)
(* Bytes                                                                   *)
(***************************************************************************)
NUL == "\\0"
SP == " "
LF == "\n"
\* A byte that is not valid UTF-8 on its own (0xFF).
XFF == "\\xFF"

Digits == <<"0", "1", "2", "3", "4", "5", "6", "7", "8", "9">>

IsDigit(c) == \E i \in 1..10 : Digits[i] = c

\* Every byte the model uses, in a fixed order: a byte's code is its index.
Alphabet ==
  <<NUL, SP, LF, "+", "-", "0", "1", "2", "3", "4", "5", "6", "7", "8", "9",
    "a", "b", "c", "d", "e", "g", "i", "l", "m", "o", "r", "t", "w", "x", XFF>>

ByteCode(c) == CHOOSE i \in 1..Len(Alphabet) : Alphabet[i] = c

HexChars ==
  <<"0", "1", "2", "3", "4", "5", "6", "7", "8", "9", "a", "b", "c", "d", "e", "f">>

\* str::find(ch): the 1-based index of the first occurrence, 0 for None.
Find(s, c) ==
  IF \E i \in 1..Len(s) : s[i] = c
  THEN CHOOSE i \in 1..Len(s) : s[i] = c /\ \A j \in 1..(i - 1) : s[j] # c
  ELSE 0

\* The characters of a byte string joined into one path component.
RECURSIVE Join(_)
Join(s) == IF s = << >> THEN "" ELSE Head(s) \o Join(Tail(s))

\* format!("{}", n) of an unsigned integer: its decimal digits, no leading zero.
RECURSIVE ToDigits(_)
ToDigits(n) ==
  IF n < 10 THEN <<Digits[n + 1]>>
  ELSE ToDigits(n \div 10) \o <<Digits[(n % 10) + 1]>>

RECURSIVE StripZeros(_)
StripZeros(s) ==
  IF Len(s) > 1 /\ Head(s) = "0" THEN StripZeros(Tail(s)) ELSE s

\* usize::MAX on a 64-bit target, as decimal digits.
UsizeMaxDigits ==
  <<"1", "8", "4", "4", "6", "7", "4", "4", "0", "7",
    "3", "7", "0", "9", "5", "5", "1", "6", "1", "5">>

DigitValue(c) == (CHOOSE i \in 1..10 : Digits[i] = c) - 1

\* a <= b for two digit strings of the same length.
RECURSIVE DigitsLeq(_, _)
DigitsLeq(a, b) ==
  IF a = << >> THEN TRUE
  ELSE IF DigitValue(Head(a)) < DigitValue(Head(b)) THEN TRUE
  ELSE IF DigitValue(Head(a)) > DigitValue(Head(b)) THEN FALSE
  ELSE DigitsLeq(Tail(a), Tail(b))

FitsUsize(canon) ==
  \/ Len(canon) < Len(UsizeMaxDigits)
  \/ Len(canon) = Len(UsizeMaxDigits) /\ DigitsLeq(canon, UsizeMaxDigits)

\* str::parse::<usize>(): an optional leading '+', then one or more decimal
\* digits whose value fits usize.  The value is kept as its canonical digit
\* string, so that no width is lost.
ParseUsize(s) ==
  LET body == IF s # << >> /\ Head(s) = "+" THEN Tail(s) ELSE s
  IN IF body = << >> \/ \E i \in 1..Len(body) : ~IsDigit(body[i])
     THEN [ok |-> FALSE, digits |-> << >>]
     ELSE IF ~FitsUsize(StripZeros(body))
     THEN [ok |-> FALSE, digits |-> << >>]
     ELSE [ok |-> TRUE, digits |-> StripZeros(body)]

(***************************************************************************)
(* GitObject (git_object.rs)                                               *)
(***************************************************************************)
Variants == {"Commit", "Blob", "Tag", "Tree"}

Panic(m) == [tag |-> "panic", msg |-> m]
Err(m) == [tag |-> "Err", msg |-> m]

\* GitObject::new
GitObjectNew(type_str, content) ==
  CASE type_str = <<"c", "o", "m", "m", "i", "t">> ->
         [tag |-> "Ok", obj |-> [variant |-> "Commit", content |-> content]]
    [] type_str = <<"b", "l", "o", "b">> ->
         [tag |-> "Ok", obj |-> [variant |-> "Blob", content |-> content]]
    [] type_str = <<"t", "a", "g">> ->
         [tag |-> "Ok", obj |-> [variant |-> "Tag", content |-> content]]
    [] type_str = <<"t", "r", "e", "e">> ->
         [tag |-> "Ok", obj |-> [variant |-> "Tree", content |-> content]]
    [] OTHER -> Panic("Incorrect type to initialise an object.")

\* GitObject::type_string
TypeString(object) ==
  CASE object.variant = "Commit" -> <<"c", "o", "m", "m", "i", "t">>
    [] object.variant = "Blob" -> <<"b", "l", "o", "b">>
    [] object.variant = "Tag" -> <<"t", "a", "g">>
    [] object.variant = "Tree" -> <<"t", "r", "e", "e">>

\* GitObject::serialise
Serialise(object) == object.content

\* GitObject::encoded_header
EncodedHeader(object) ==
  TypeString(object) \o <<SP>> \o ToDigits(Len(Serialise(object))) \o <<NUL>>

\* GitObject::content_with_headers
ContentWithHeaders(object) == EncodedHeader(object) \o Serialise(object)

HexPair(code) == <<HexChars[(code \div 16) + 1], HexChars[(code % 16) + 1]>>

\* SHA-1 rendered as 40 lowercase hex characters.  The primitive is external;
\* it is modelled as a collision-free function of byte strings of at most
\* HashBlock bytes: the bytes' codes, last byte first, padded with zeros.
HashBlock == 20

RECURSIVE Sha1Pairs(_, _)
Sha1Pairs(bytes, n) ==
  IF n = 0 THEN << >>
  ELSE IF bytes = << >> THEN <<"0", "0">> \o Sha1Pairs(bytes, n - 1)
  ELSE HexPair(ByteCode(bytes[Len(bytes)]))
         \o Sha1Pairs(SubSeq(bytes, 1, Len(bytes) - 1), n - 1)

Sha1Hex(bytes) == Sha1Pairs(bytes, HashBlock)

\* GitObject::hash
Hash(object) == Sha1Hex(ContentWithHeaders(object))

(***************************************************************************)
(* KVLM (git_object.rs; bin.rs holds an identical copy)                    *)
(***************************************************************************)
\* A faulty kvlm_parser that keeps one entry per key: a header line whose key
\* was seen before takes the place of the earlier entry.
RECURSIVE KvlmParserDedup(_, _)
KvlmParserDedup(content, kvv) ==
  LET blank_space == Find(content, SP)
      line_break == Find(content, LF)
      key == SubSeq(content, 1, blank_space - 1)
      others == SelectSeq(kvv, LAMBDA e : e[1] # key)
  IN IF line_break = 0
     THEN Err("Could not find a new line break, content is malformed")
     ELSE IF blank_space = 0 \/ blank_space > line_break
     THEN [tag |-> "Ok",
           kvv |-> Append(kvv, <<<< >>, SubSeq(content, line_break + 1,
                                                Len(content))>>)]
     ELSE KvlmParserDedup(SubSeq(content, line_break + 1, Len(content)),
                          Append(others,
                                 <<key, SubSeq(content, blank_space + 1,
                                               line_break - 1)>>))

\* kvlm_parser(content, kvv): kvv is the entries found so far (None is << >>).
\* An entry is <<key, value>>; the message entry has the empty key.
RECURSIVE KvlmParser(_, _)
KvlmParser(content, kvv) ==
  LET blank_space == Find(content, SP)
      line_break == Find(content, LF)
  IN IF line_break = 0
     THEN Err("Could not find a new line break, content is malformed")
     ELSE IF blank_space = 0 \/ blank_space > line_break
     THEN [tag |-> "Ok",
           kvv |-> Append(kvv, <<<< >>, SubSeq(content, line_break + 1,
                                                Len(content))>>)]
     ELSE KvlmParser(SubSeq(content, line_break + 1, Len(content)),
                     Append(kvv, <<SubSeq(content, 1, blank_space - 1),
                                   SubSeq(content, blank_space + 1,
                                          line_break - 1)>>))

\* A faulty kvlm_serialize that leaves out the line break before the message.
RECURSIVE KvlmSerializeNoBlankLine(_)
KvlmSerializeNoBlankLine(kvv) ==
  IF kvv = << >> THEN << >>
  ELSE LET current == kvv[Len(kvv)]
           acc == KvlmSerializeNoBlankLine(SubSeq(kvv, 1, Len(kvv) - 1))
       IN IF current[1] = << >> THEN acc \o current[2]
          ELSE acc \o current[1] \o <<SP>> \o current[2] \o <<LF>>

\* kvlm_serialize(kvv): the fold over the entries, first to last.
RECURSIVE KvlmSerialize(_)
KvlmSerialize(kvv) ==
  IF kvv = << >> THEN << >>
  ELSE LET current == kvv[Len(kvv)]
           acc == KvlmSerialize(SubSeq(kvv, 1, Len(kvv) - 1))
           key == current[1]
           value == current[2]
       IN IF key = << >> THEN acc \o <<LF>> \o value
          ELSE acc \o key \o <<SP>> \o value \o <<LF>>

(***************************************************************************)
(* Filesystem (std::fs as used by repository.rs)                           *)
(***************************************************************************)
NoFiles == [p \in {} |-> << >>]

IsDir(f, p) == p \in f.dirs
IsFile(f, p) == p \in DOMAIN f.files
Exists(f, p) == IsDir(f, p) \/ IsFile(f, p)

Prefixes(p) == {SubSeq(p, 1, i) : i \in 0..Len(p)}

\* Path::parent: None for the root (HasParent is then false).
HasParent(p) == p # << >>

Parent(p) == SubSeq(p, 1, Len(p) - 1)

\* fs::create_dir_all: fails when a component of the path is a file.
CreateDirAll(f, p) ==
  IF \E q \in Prefixes(p) : IsFile(f, q)
  THEN [ok |-> FALSE, fs |-> f]
  ELSE [ok |-> TRUE, fs |-> [f EXCEPT !.dirs = @ \cup Prefixes(p)]]

\* fs::write and File::create + write: creates or truncates the file; fails
\* when the path is a directory or its parent is not one.
WriteFile(f, p, content) ==
  IF p = << >> \/ IsDir(f, p) \/ ~IsDir(f, Parent(p))
  THEN [ok |-> FALSE, fs |-> f]
  ELSE [ok |-> TRUE,
        fs |-> [f EXCEPT !.files =
                  [q \in (DOMAIN f.files) \cup {p} |->
                     IF q = p THEN content ELSE f.files[q]]]]

\* fs::canonicalize: resolves "." and ".." and fails when a component does
\* not exist (the model has no symbolic links).
RECURSIVE Canon(_, _, _)
Canon(f, stack, rest) ==
  IF rest = << >> THEN [ok |-> TRUE, path |-> stack]
  ELSE LET seg == Head(rest)
           next == IF seg = ".." THEN
                     (IF stack = << >> THEN stack
                      ELSE SubSeq(stack, 1, Len(stack) - 1))
                   ELSE IF seg = "." THEN stack
                   ELSE stack \o <<seg>>
       IN IF ~IsDir(f, stack) \/ ~Exists(f, next)
          THEN [ok |-> FALSE, path |-> << >>]
          ELSE Canon(f, next, Tail(rest))

Canonicalize(f, p) == Canon(f, << >>, p)

\* flate2 ZlibEncoder / ZlibDecoder: an external lossless stream compressor,
\* modelled as the zlib stream header followed by the data.
ZlibHeader == "\\x78\\x01"

ZlibEncode(bytes) == <<ZlibHeader>> \o bytes

ZlibDecode(data) ==
  IF data # << >> /\ Head(data) = ZlibHeader
  THEN [ok |-> TRUE, bytes |-> Tail(data)]
  ELSE [ok |-> FALSE, bytes |-> << >>]

\* String::from_utf8 as used by read_to_string.
IsUtf8(bytes) == \A i \in 1..Len(bytes) : bytes[i] # XFF

(***************************************************************************)
(* Repository (repository.rs)                                              *)
(***************************************************************************)
GOT_DIR == ".got"

DescriptionText ==
  <<"Unnamed repository; edit this file 'description' to name the repository.\n">>

HeadText == <<"ref: refs/heads/master\n">>

\* Repository::generate_default_config, as written by Ini::write.
DefaultConfigText ==
  <<"[core]", "repositoryformatversion=0", "filemode=false", "bare=false">>

\* Ini::read: whether the text parses as an INI file.
IniParses(text) == text = << >> \/ text = DefaultConfigText

\* Repository::new
RepoNew(f, path, force) ==
  LET gotdir == path \o <<GOT_DIR>>
      config_file_path == gotdir \o <<"config">>
      readable == IsFile(f, config_file_path)
  IN IF ~IsDir(f, gotdir) /\ ~force
     THEN Panic("Not a valid Got repository")
     ELSE IF readable /\ ~IniParses(f.files[config_file_path])
     THEN Panic("Configuration file has wrong format")
     ELSE IF ~readable /\ ~force
     THEN Panic("Configuration file not found")
     ELSE [tag |-> "Ok", repo |-> [worktree |-> path, gotdir |-> gotdir]]

\* Repository::repo_path
RepoPath(repo, rel_path) == repo.gotdir \o rel_path

\* A faulty repo_dir that creates the directory without looking whether it
\* exists (fs::create_dir fails with AlreadyExists).
RepoDirNoExistsCheck(f, repo, rel_path, should_create_dir) ==
  LET path == RepoPath(repo, rel_path)
      r == CreateDirAll(f, path)
  IN IF ~should_create_dir
     THEN [tag |-> IF IsDir(f, path) THEN "Some" ELSE "None",
           path |-> path, fs |-> f]
     ELSE IF Exists(f, path) \/ ~r.ok
     THEN [tag |-> "panic", path |-> path, fs |-> f]
     ELSE [tag |-> "Some", path |-> path, fs |-> r.fs]

\* Repository::repo_dir
RepoDir(f, repo, rel_path, should_create_dir) ==
  LET path == RepoPath(repo, rel_path)
  IN IF Exists(f, path)
     THEN IF IsDir(f, path)
          THEN [tag |-> "Some", path |-> path, fs |-> f]
          ELSE [tag |-> "panic", path |-> path, fs |-> f]
     ELSE IF should_create_dir
          THEN LET r == CreateDirAll(f, path)
               IN IF r.ok THEN [tag |-> "Some", path |-> path, fs |-> r.fs]
                  ELSE [tag |-> "panic", path |-> path, fs |-> f]
          ELSE [tag |-> "None", path |-> path, fs |-> f]

\* Repository::repo_file
RepoFile(f, repo, rel_path, should_create_dir) ==
  LET path == RepoPath(repo, rel_path)
  IN IF HasParent(path)
     THEN [tag |-> "Some", path |-> path, fs |-> f]
     ELSE LET d == RepoDir(f, repo, rel_path, should_create_dir)
          IN IF d.tag = "None"
             THEN [tag |-> "panic", path |-> path, fs |-> d.fs]
             ELSE [tag |-> d.tag, path |-> path, fs |-> d.fs]

\* Repository::create.  The result carries the filesystem the call leaves,
\* also when it panics half way.
Create(f, path) ==
  LET made == IF Exists(f, path) THEN [ok |-> TRUE, fs |-> f]
              ELSE CreateDirAll(f, path)
      new == RepoNew(made.fs, path, TRUE)
      repo == new.repo
      d1 == RepoDir(made.fs, repo, <<"branches">>, TRUE)
      d2 == RepoDir(d1.fs, repo, <<"objects">>, TRUE)
      d3 == RepoDir(d2.fs, repo, <<"refs", "tags">>, TRUE)
      d4 == RepoDir(d3.fs, repo, <<"refs", "heads">>, TRUE)
      p5 == RepoFile(d4.fs, repo, <<"description">>, FALSE)
      w5 == WriteFile(p5.fs, p5.path, DescriptionText)
      p6 == RepoFile(w5.fs, repo, <<"HEAD">>, FALSE)
      w6 == WriteFile(p6.fs, p6.path, HeadText)
      p7 == RepoFile(w6.fs, repo, <<"config">>, FALSE)
      w7 == WriteFile(p7.fs, p7.path, DefaultConfigText)
  IN IF Exists(f, path) /\ ~IsDir(f, path)
     THEN [out |-> Err("Could not create repository because path is not a directory"),
           fs |-> f]
     ELSE IF ~made.ok
     THEN [out |-> Panic("Could not create repository"), fs |-> made.fs]
     ELSE IF new.tag = "panic" THEN [out |-> new, fs |-> made.fs]
     ELSE IF d1.tag = "panic"
     THEN [out |-> Panic("Provided path is not a directory"), fs |-> d1.fs]
     ELSE IF d2.tag = "panic"
     THEN [out |-> Panic("Provided path is not a directory"), fs |-> d2.fs]
     ELSE IF d3.tag = "panic"
     THEN [out |-> Panic("Provided path is not a directory"), fs |-> d3.fs]
     ELSE IF d4.tag = "panic"
     THEN [out |-> Panic("Provided path is not a directory"), fs |-> d4.fs]
     ELSE IF p5.tag = "panic" \/ ~w5.ok
     THEN [out |-> Panic("Could not write description file"), fs |-> w5.fs]
     ELSE IF p6.tag = "panic" \/ ~w6.ok
     THEN [out |-> Panic("Could not write HEAD file"), fs |-> w6.fs]
     ELSE IF p7.tag = "panic" \/ ~w7.ok
     THEN [out |-> Panic("Could not write configuration file on repo creation"),
           fs |-> w7.fs]
     ELSE [out |-> [tag |-> "Ok", repo |-> repo], fs |-> w7.fs]

\* Repository::repo_find
RECURSIVE RepoFindFrom(_, _)
RepoFindFrom(f, canonical_path) ==
  LET maybe_got_path == IsDir(f, canonical_path \o <<GOT_DIR>>)
  IN IF ~HasParent(canonical_path) THEN [tag |-> "None"]
     ELSE IF maybe_got_path
     THEN LET new == RepoNew(f, canonical_path, FALSE)
          IN IF new.tag = "panic" THEN new
             ELSE [tag |-> "Some", repo |-> new.repo]
     ELSE RepoFindFrom(f, Parent(canonical_path))

\* The parent of a canonical path is canonical, so the recursive calls'
\* canonicalize is the identity on it.
RepoFind(f, path) ==
  LET c == Canonicalize(f, path)
  IN IF ~c.ok THEN Panic("Could not convert path to canonical")
     ELSE RepoFindFrom(f, c.path)

\* A faulty split of the digest: three characters for the directory.
ObjectWriteRelPathSplit3(hash) ==
  <<"objects", Join(SubSeq(hash, 1, 3)), Join(SubSeq(hash, 4, Len(hash)))>>

\* The path object_write stores a digest under, relative to the .got dir.
ObjectWriteRelPath(hash) ==
  <<"objects", Join(SubSeq(hash, 1, 2)), Join(SubSeq(hash, 3, Len(hash)))>>

\* The path object_read looks a digest up at, relative to the .got dir.
ObjectReadRelPath(sha) ==
  <<"objects", Join(SubSeq(sha, 1, 2)), Join(SubSeq(sha, 3, Len(sha)))>>

\* Repository::object_write, the branch taken when actually_write is true.
ObjectWritePersist(f, repo, object) ==
  LET hash == Hash(object)
      file_path == RepoFile(f, repo, ObjectWriteRelPath(hash), TRUE)
      dirs == CreateDirAll(file_path.fs, Parent(file_path.path))
      file == WriteFile(dirs.fs, file_path.path,
                        ZlibEncode(ContentWithHeaders(object)))
  IN IF file_path.tag = "panic"
     THEN [out |-> Panic("Could not create file because path does not exist"),
           fs |-> file_path.fs]
     ELSE IF ~dirs.ok
     THEN [out |-> Panic("Could not create directory."), fs |-> dirs.fs]
     ELSE IF ~file.ok
     THEN [out |-> Panic("Could not create file."), fs |-> file.fs]
     ELSE [out |-> [tag |-> "Ok", hash |-> hash], fs |-> file.fs]

\* A faulty object_write that stores the object whatever actually_write says.
ObjectWriteAlways(f, repo, object, actually_write) ==
  ObjectWritePersist(f, repo, object)

\* Repository::object_write
ObjectWrite(f, repo, object, actually_write) ==
  IF actually_write THEN ObjectWritePersist(f, repo, object)
  ELSE [out |-> [tag |-> "Ok", hash |-> Hash(object)], fs |-> f]

MalformedMsgs ==
  {"File is malformed",
   "Could not read object because sizes mismatch (object is malformed)."}

UnknownTypeMsg == "Object type does not match any known types."

\* The match on object_type at the end of object_read.
ReadVariant(object_type, content) ==
  CASE object_type = <<"c", "o", "m", "m", "i", "t">> ->
         [tag |-> "Ok", obj |-> [variant |-> "Commit", content |-> content]]
    [] object_type = <<"t", "r", "e", "e">> ->
         [tag |-> "Ok", obj |-> [variant |-> "Tree", content |-> content]]
    [] object_type = <<"t", "a", "g">> ->
         [tag |-> "Ok", obj |-> [variant |-> "Tag", content |-> content]]
    [] object_type = <<"b", "l", "o", "b">> ->
         [tag |-> "Ok", obj |-> [variant |-> "Blob", content |-> content]]
    [] OTHER -> Err(UnknownTypeMsg)

\* object_read from the decompressed file contents on.  Indices are 1-based:
\* Rust's object_type_index is type_index - 1, and so on.
DecodeFrame(file_contents) ==
  LET type_index == Find(file_contents, SP)
      size_index == Find(file_contents, NUL)
      object_type == SubSeq(file_contents, 1, type_index - 1)
      object_size == SubSeq(file_contents, type_index + 1, size_index - 1)
      object_content == SubSeq(file_contents, size_index, Len(file_contents))
      real_object_size == Len(object_content) - 1
      parsed == ParseUsize(object_size)
  IN IF type_index = 0 THEN Err("File is malformed")
     ELSE IF size_index = 0 THEN Err("File is malformed")
     ELSE IF type_index + 1 > size_index
     THEN Panic("slice index starts after its end")
     ELSE IF ~parsed.ok THEN Panic("called Result::unwrap() on an Err value")
     ELSE IF parsed.digits # ToDigits(real_object_size)
     THEN Err("Could not read object because sizes mismatch (object is malformed).")
     ELSE ReadVariant(object_type, object_content)

\* Repository::object_read
ObjectRead(f, repo, sha) ==
  LET file_path == RepoFile(f, repo, ObjectReadRelPath(sha), FALSE)
      decoded == ZlibDecode(f.files[file_path.path])
  IN IF file_path.tag = "panic"
     THEN Panic("Could not create file because path does not exist")
     ELSE IF ~IsFile(f, file_path.path) THEN Panic("File does not exist")
     ELSE IF ~decoded.ok \/ ~IsUtf8(decoded.bytes)
     THEN Panic("called Result::unwrap() on an Err value")
     ELSE DecodeFrame(decoded.bytes)

(***************************************************************************)
(* Inputs                                                                  *)
(***************************************************************************)
\* The most object files a run of the store (Spec) holds.
MaxFiles == 1

\* The most object files a run of the repositories (SpecRepo) holds.
MaxRepoFiles == 2

Blob == <<"b", "l", "o", "b">>
Widget == <<"w", "i", "d", "g", "e", "t">>

TenBytes == <<"a", "a", "a", "a", "a", "a", "a", "a", "a", "a">>

Payloads == {<< >>, <<SP, NUL, "a">>, TenBytes}

Objects == [variant : Variants, content : Payloads]

TypeNames ==
  {<<"c", "o", "m", "m", "i", "t">>, <<"t", "r", "e", "e">>, <<"t", "a", "g">>,
   Blob, Widget, << >>}

TwoTo64 ==
  <<"1", "8", "4", "4", "6", "7", "4", "4", "0", "7",
    "3", "7", "0", "9", "5", "5", "1", "6", "1", "6">>

\* Hand-made frames: well-formed ones, and ones that break the frame grammar.
CraftedFrames ==
  {Blob \o <<SP, "1", NUL, "a">>,
   Blob \o <<SP, "0", "1", NUL, "a">>,
   Blob \o <<SP, "+", "1", NUL, "a">>,
   Blob \o <<SP, "2", NUL, "a">>,
   Blob \o <<SP, "1", NUL, "a", "a">>,
   Blob \o <<SP, "2", NUL, XFF>>,
   Blob \o <<SP>> \o TwoTo64 \o <<NUL, "a">>,
   Blob \o <<SP, "x", NUL, "a">>,
   Blob \o <<SP, "-", "1", NUL, "a">>,
   Blob \o <<SP, NUL, "a">>,
   Blob \o <<"1", NUL, "a">>,
   Blob \o <<NUL, SP, "a">>,
   Blob \o <<SP, "1", "a">>,
   Widget \o <<SP, "1", NUL, "a">>,
   Widget \o <<SP, "2", NUL, "a">>}

\* What a hand-made object file may hold: a compressed frame, or bytes that
\* are no zlib stream.
PlantedContents == {ZlibEncode(fr) : fr \in CraftedFrames} \cup {<<"a">>}

\* The digests hand-made files are stored under.
PlantDigests == {Hash([variant |-> "Blob", content |-> << >>])}

ReadDigests == {Hash(o) : o \in Objects} \cup PlantDigests

\* The working tree of the store's repository.
StoreTree == <<"w">>

EmptyFs == [dirs |-> {<< >>}, files |-> NoFiles]

\* The object files of a filesystem: the files below a .got/objects directory.
IsObjectFile(p) ==
  \E i \in 1..(Len(p) - 1) : p[i] = GOT_DIR /\ p[i + 1] = "objects"

ObjectFiles(f) == {p \in DOMAIN f.files : IsObjectFile(p)}

\* A handle on the repository at worktree wt, as repo_find or create give it.
HasHandle(f, wt) == RepoNew(f, wt, FALSE).tag = "Ok"

Handle(wt) == [worktree |-> wt, gotdir |-> wt \o <<GOT_DIR>>]

\* No call is under way step by step.
NoCalls == << >>

(***************************************************************************)
(* Actions                                                                 *)
(***************************************************************************)
\* GitObject::new(type_str, content)
NewObject(type_str, content) ==
  /\ last' = [op |-> "new", arg |-> [type_str |-> type_str, content |-> content],
              out |-> GitObjectNew(type_str, content)]
  /\ UNCHANGED <<fs, pc>>

\* repo.object_write(object, actually_write) on the repository at wt; a run
\* stores at most cap object files.
WriteObject(wt, object, actually_write, cap) ==
  /\ HasHandle(fs, wt)
  /\ LET r == ObjectWrite(fs, Handle(wt), object, actually_write)
     IN /\ Cardinality(ObjectFiles(r.fs)) <= cap
        /\ fs' = r.fs
        /\ last' = [op |-> "object_write",
                    arg |-> [worktree |-> wt, object |-> object,
                             actually_write |-> actually_write],
                    out |-> r.out]
        /\ UNCHANGED pc

\* repo.object_read(sha) on the repository at wt
ReadObject(wt, sha) ==
  /\ HasHandle(fs, wt)
  /\ last' = [op |-> "object_read", arg |-> [worktree |-> wt, sha |-> sha],
              out |-> ObjectRead(fs, Handle(wt), sha)]
  /\ UNCHANGED <<fs, pc>>

\* The environment puts a hand-made object file under the digest sha.
PlantFile(wt, sha, data) ==
  /\ HasHandle(fs, wt)
  /\ LET path == RepoPath(Handle(wt), ObjectReadRelPath(sha))
         made == CreateDirAll(fs, Parent(path))
         r == WriteFile(made.fs, path, data)
     IN /\ made.ok /\ r.ok
        /\ Cardinality(ObjectFiles(r.fs)) <= MaxFiles
        /\ fs' = r.fs
        /\ last' = [op |-> "plant", arg |-> [worktree |-> wt, sha |-> sha],
                    out |-> [tag |-> "Ok"]]
        /\ UNCHANGED pc

\* Repository::create(path)
CreateRepo(path) ==
  LET r == Create(fs, path)
  IN /\ fs' = r.fs
     /\ last' = [op |-> "create",
                 arg |-> [path |-> path,
                          existed |-> IsDir(fs, path \o <<GOT_DIR>>)],
                 out |-> r.out]
     /\ UNCHANGED pc

\* Repository::repo_find(path)
FindRepo(path) ==
  /\ last' = [op |-> "repo_find", arg |-> [path |-> path],
              out |-> RepoFind(fs, path)]
  /\ UNCHANGED <<fs, pc>>

(***************************************************************************)
(* The object store of one repository, with hand-made object files         *)
(***************************************************************************)
Init ==
  /\ fs = Create(EmptyFs, StoreTree).fs
  /\ last = [op |-> "init", arg |-> << >>, out |-> << >>]
  /\ pc = NoCalls

Next ==
  \/ \E t \in TypeNames, c \in Payloads : NewObject(t, c)
  \/ \E o \in Objects, w \in BOOLEAN : WriteObject(StoreTree, o, w, MaxFiles)
  \/ \E d \in ReadDigests : ReadObject(StoreTree, d)
  \/ \E d \in PlantDigests, c \in PlantedContents : PlantFile(StoreTree, d, c)

Spec == Init /\ [][Next]_vars

(***************************************************************************)
(* Claims about the object store                                           *)
(***************************************************************************)
\* The file object_read(sha) opens in the repository at wt.
ReadPathOf(wt, sha) == RepoPath(Handle(wt), ObjectReadRelPath(sha))

\* The decompressed frame of the file the last object_read opened.
LastReadHasFile ==
  /\ last.op = "object_read"
  /\ IsFile(fs, ReadPathOf(last.arg.worktree, last.arg.sha))

LastReadData == fs.files[ReadPathOf(last.arg.worktree, last.arg.sha)]

LastReadFrame == ZlibDecode(LastReadData).bytes

LastReadHasFrame == LastReadHasFile /\ ZlibDecode(LastReadData).ok

IsMalformed(out) == out.tag = "Err" /\ out.msg \in MalformedMsgs

IsDecimal(s) == s # << >> /\ \A i \in 1..Len(s) : IsDigit(s[i])

\* C1 (as claimed): after write(Object(t, p), persist = true) returns digest d,
\* read(d) succeeds and yields an object of type t whose payload is exactly p.
C1_WriteReadIdentity ==
  (last.op = "object_write" /\ last.arg.actually_write /\ last.out.tag = "Ok")
    => ObjectRead(fs, Handle(last.arg.worktree), last.out.hash)
         = [tag |-> "Ok", obj |-> last.arg.object]

\* What the code does instead: the object read back has the written type, and
\* its payload is the written payload with the frame's NUL byte in front.
C1_ObservedNulPrefix ==
  (last.op = "object_write" /\ last.arg.actually_write /\ last.out.tag = "Ok")
    => ObjectRead(fs, Handle(last.arg.worktree), last.out.hash)
         = [tag |-> "Ok",
            obj |-> [variant |-> last.arg.object.variant,
                     content |-> <<NUL>> \o last.arg.object.content]]

\* A frame "<type> <n>\0<payload>" (type without space or NUL, n decimal digits)
\* whose declared length n is not the byte length of the payload.
LengthMismatch(fr) ==
  LET sp == Find(fr, SP)
      nul == Find(fr, NUL)
      n == SubSeq(fr, sp + 1, nul - 1)
  IN /\ sp > 0 /\ nul > sp
     /\ IsDecimal(n)
     /\ StripZeros(n) # ToDigits(Len(fr) - nul)

\* C2 (as claimed): reading a stored frame whose declared decimal length differs
\* from the payload's byte length returns a Malformed failure, whatever its type.
C2_LengthMismatchRejected ==
  (LastReadHasFrame /\ LengthMismatch(LastReadFrame)) => IsMalformed(last.out)

\* What the code does: the mismatch is rejected as Malformed when the declared
\* length fits usize and the frame is valid UTF-8.
C2_ObservedWithinUsize ==
  (/\ LastReadHasFrame /\ LengthMismatch(LastReadFrame)
   /\ IsUtf8(LastReadFrame)
   /\ LET fr == LastReadFrame
      IN FitsUsize(StripZeros(SubSeq(fr, Find(fr, SP) + 1, Find(fr, NUL) - 1))))
    => IsMalformed(last.out)

\* A frame that breaks the header grammar: no space before the declared length
\* (none at all, or the first one only after the NUL), no NUL, or a declared
\* length that is not a non-negative decimal integer (an optional '+' allowed).
GrammarBroken(fr) ==
  LET sp == Find(fr, SP)
      nul == Find(fr, NUL)
      n == SubSeq(fr, sp + 1, nul - 1)
  IN \/ sp = 0
     \/ nul = 0
     \/ sp > nul
     \/ ~(IsDecimal(n) \/ (n # << >> /\ Head(n) = "+" /\ IsDecimal(Tail(n))))

\* C3 (as claimed): reading a frame that breaks the header grammar returns a
\* Malformed failure as a typed result: no abort, no object.
C3_GrammarRejected ==
  (LastReadHasFrame /\ GrammarBroken(LastReadFrame)) => IsMalformed(last.out)

KnownTypeNames ==
  {<<"c", "o", "m", "m", "i", "t">>, <<"t", "r", "e", "e">>, <<"t", "a", "g">>,
   <<"b", "l", "o", "b">>}

\* A frame that is well formed but for its type token, which is unknown.
UnknownTypeFrame(fr) ==
  LET sp == Find(fr, SP)
      nul == Find(fr, NUL)
      n == SubSeq(fr, sp + 1, nul - 1)
  IN /\ sp > 0 /\ nul > sp
     /\ IsDecimal(n)
     /\ StripZeros(n) = ToDigits(Len(fr) - nul)
     /\ SubSeq(fr, 1, sp - 1) \notin KnownTypeNames

\* C4 (as claimed): new(type_name, payload) with an unknown type name fails with
\* a typed InvalidType failure, and reading a stored frame with an unknown type
\* token fails with UnknownType; neither returns an object.
C4_UnknownTypeRejected ==
  /\ (last.op = "new" /\ last.arg.type_str \notin KnownTypeNames)
       => last.out.tag = "Err"
  /\ (LastReadHasFrame /\ IsUtf8(LastReadFrame) /\ UnknownTypeFrame(LastReadFrame))
       => last.out = Err(UnknownTypeMsg)

\* What the code does: an unknown type never yields an object, from new (which
\* panics) or from read (which returns the UnknownType failure).
C4_ObservedNoObject ==
  /\ (last.op = "new" /\ last.arg.type_str \notin KnownTypeNames)
       => last.out.tag = "panic"
  /\ (LastReadHasFrame /\ IsUtf8(LastReadFrame) /\ UnknownTypeFrame(LastReadFrame))
       => last.out = Err(UnknownTypeMsg)

\* C5 (as claimed): read(d) of a digest with no file at objects/<2>/<38> returns
\* a NotFound failure as a typed result and leaves the store unchanged.
C5_MissingIsNotFound ==
  [][(/\ last'.op = "object_read"
      /\ ~IsFile(fs, ReadPathOf(last'.arg.worktree, last'.arg.sha)))
       => (last'.out.tag = "Err" /\ fs' = fs)]_vars

\* What the code does: the read panics ("File does not exist"); the store is
\* left unchanged.
C5_ObservedPanic ==
  [][(/\ last'.op = "object_read"
      /\ ~IsFile(fs, ReadPathOf(last'.arg.worktree, last'.arg.sha)))
       => (last'.out = Panic("File does not exist") /\ fs' = fs)]_vars

\* The frame of an object of the given variant and payload, as the store's
\* format states it: "<type> <decimal length>\0<payload>".
TypeNameOf(variant) ==
  CASE variant = "Commit" -> <<"c", "o", "m", "m", "i", "t">>
    [] variant = "Tree" -> <<"t", "r", "e", "e">>
    [] variant = "Tag" -> <<"t", "a", "g">>
    [] variant = "Blob" -> <<"b", "l", "o", "b">>

FramedBytes(variant, payload) ==
  TypeNameOf(variant) \o <<SP>> \o ToDigits(Len(payload)) \o <<NUL>> \o payload

\* C9: write(object, persist) returns the SHA-1 of the object's framed bytes
\* whether persist is true or false, and with persist = false it leaves the
\* filesystem unchanged.
C9_WriteDigest ==
  [][last'.op = "object_write"
       => /\ last'.out =
               [tag |-> "Ok",
                hash |-> Sha1Hex(FramedBytes(last'.arg.object.variant,
                                             last'.arg.object.content))]
          /\ (~last'.arg.actually_write => fs' = fs)]_vars

\* A write with persist = false has returned the digest of an object that the
\* store does not hold.
C9_Witness ==
  /\ last.op = "object_write"
  /\ ~last.arg.actually_write
  /\ last.out.tag = "Ok"
  /\ Len(last.out.hash) = 2 * HashBlock
  /\ ~IsFile(fs, ReadPathOf(last.arg.worktree, last.out.hash))
  /\ ObjectFiles(fs) # {}

(***************************************************************************)
(* KVLM: parse a text, then serialize what the parse returned              *)
(***************************************************************************)
\* The longest text given to kvlm_parser.
MaxKvlmLen == 9

KvlmBytes == {"k", SP, LF}

KvlmTexts == UNION {[1..n -> KvlmBytes] : n \in 0..MaxKvlmLen}

InitKvlm ==
  /\ fs = EmptyFs
  /\ \E x \in KvlmTexts :
       last = [op |-> "kvlm_input", arg |-> [content |-> x], out |-> << >>]
  /\ pc = NoCalls

\* kvlm_parser(content, None)
ParseKvlm ==
  /\ last.op = "kvlm_input"
  /\ last' = [op |-> "kvlm_parser", arg |-> last.arg,
              out |-> KvlmParser(last.arg.content, << >>)]
  /\ UNCHANGED <<fs, pc>>

\* kvlm_serialize(&kvv) of the entries the parse returned
SerializeKvlm ==
  /\ last.op = "kvlm_parser"
  /\ last.out.tag = "Ok"
  /\ last' = [op |-> "kvlm_serialize",
              arg |-> [content |-> last.arg.content, kvv |-> last.out.kvv],
              out |-> KvlmSerialize(last.out.kvv)]
  /\ UNCHANGED <<fs, pc>>

NextKvlm == ParseKvlm \/ SerializeKvlm

SpecKvlm == InitKvlm /\ [][NextKvlm]_vars

\* A well-formed text: zero or more header lines "key value\n" whose key is not
\* empty and holds no space or newline, then a blank line, then any message.
RECURSIVE IsWellFormedKvlm(_)
IsWellFormedKvlm(x) ==
  /\ x # << >>
  /\ \/ x[1] = LF
     \/ LET sp == Find(x, SP)
            lb == Find(x, LF)
        IN /\ sp > 1 /\ lb > sp
           /\ IsWellFormedKvlm(SubSeq(x, lb + 1, Len(x)))

\* C6: for every well-formed text x, parse(x) succeeds and
\* serialize(parse(x)) = x.
C6_KvlmRoundTrip ==
  /\ (last.op = "kvlm_parser" /\ IsWellFormedKvlm(last.arg.content))
       => last.out.tag = "Ok"
  /\ (last.op = "kvlm_serialize" /\ IsWellFormedKvlm(last.arg.content))
       => last.out = last.arg.content

\* A well-formed text with a header and a message that holds a blank line has
\* been parsed and serialized.
C6_Witness ==
  /\ last.op = "kvlm_serialize"
  /\ IsWellFormedKvlm(last.arg.content)
  /\ Len(last.arg.kvv) >= 2
  /\ LET msg == last.arg.kvv[Len(last.arg.kvv)][2]
     IN \E i \in 1..(Len(msg) - 2) :
          msg[i] = LF /\ msg[i + 1] = LF /\ msg[i + 2] = "k"

\* The entries of a parse result whose key is the empty string.
EmptyKeyed(kvv) == {i \in 1..Len(kvv) : kvv[i][1] = << >>}

\* The lines that begin with a space among the lines the parser takes before
\* it stops (at the separator line, or where the text runs out).
RECURSIVE SpaceLedLines(_)
SpaceLedLines(x) ==
  LET sp == Find(x, SP)
      lb == Find(x, LF)
  IN IF lb = 0 THEN 0
     ELSE IF sp = 0 \/ sp > lb THEN 0
     ELSE (IF sp = 1 THEN 1 ELSE 0) + SpaceLedLines(SubSeq(x, lb + 1, Len(x)))

\* C11 (as claimed): in every sequence that parse returns successfully, exactly
\* one entry has the empty key, and it is the last one, for every input, also
\* when a line before the blank separator begins with a space.
C11_MessageEntryUnique ==
  (last.op = "kvlm_parser" /\ last.out.tag = "Ok")
    => EmptyKeyed(last.out.kvv) = {Len(last.out.kvv)}

\* What the code does: the last entry has the empty key, and so has the entry
\* of every line before the separator that begins with a space.
C11_ObservedSpaceLedEntries ==
  (last.op = "kvlm_parser" /\ last.out.tag = "Ok")
    => /\ Len(last.out.kvv) \in EmptyKeyed(last.out.kvv)
       /\ Cardinality(EmptyKeyed(last.out.kvv))
            = 1 + SpaceLedLines(last.arg.content)

\* The parse with continuation folding, as the format's contract states it: a
\* line that begins with a space and follows an entry extends that entry's
\* value by a newline and the line without its leading space; every other
\* line is taken as a header or as the separator.  folds counts the
\* continuation lines.
RECURSIVE FoldedParse(_, _, _)
FoldedParse(content, kvv, folds) ==
  LET sp == Find(content, SP)
      lb == Find(content, LF)
      rest == SubSeq(content, lb + 1, Len(content))
  IN IF lb = 0 THEN [tag |-> "Err", kvv |-> << >>, folds |-> folds]
     ELSE IF sp = 1 /\ kvv # << >>
     THEN FoldedParse(rest,
                      [kvv EXCEPT ![Len(kvv)][2] =
                         @ \o <<LF>> \o SubSeq(content, 2, lb - 1)],
                      folds + 1)
     ELSE IF sp = 0 \/ sp > lb
     THEN [tag |-> "Ok", kvv |-> Append(kvv, <<<< >>, rest>>), folds |-> folds]
     ELSE FoldedParse(rest,
                      Append(kvv, <<SubSeq(content, 1, sp - 1),
                                    SubSeq(content, sp + 1, lb - 1)>>),
                      folds)

\* A text that starts with a header line and holds a continuation line before
\* its separator.
HasContinuation(x) ==
  /\ x # << >> /\ x[1] # SP
  /\ FoldedParse(x, << >>, 0).tag = "Ok"
  /\ FoldedParse(x, << >>, 0).folds > 0

\* C12 (as claimed): a line that starts with a space directly after a header
\* line starts no new entry; the newline and the line without its leading
\* space are appended to the value of the preceding entry, so continuation
\* lines leave the number of entries unchanged.
C12_ContinuationFolded ==
  (last.op = "kvlm_parser" /\ HasContinuation(last.arg.content))
    => last.out = [tag |-> "Ok",
                   kvv |-> FoldedParse(last.arg.content, << >>, 0).kvv]

\* What the code does: every continuation line becomes an entry of its own,
\* with the empty key and the line without its leading space as the value.
C12_ObservedNewEntries ==
  (last.op = "kvlm_parser" /\ HasContinuation(last.arg.content))
    => /\ last.out.tag = "Ok"
       /\ Len(last.out.kvv)
            = Len(FoldedParse(last.arg.content, << >>, 0).kvv)
                + FoldedParse(last.arg.content, << >>, 0).folds
       /\ Cardinality(EmptyKeyed(last.out.kvv))
            = 1 + FoldedParse(last.arg.content, << >>, 0).folds

\* The positions at which the lines of a text start, and the start of the
\* i-th line.
LineStarts(x) == {1} \cup {j + 1 : j \in {k \in 1..Len(x) : x[k] = LF}}

LineStart(x, i) ==
  CHOOSE s \in LineStarts(x) :
    Cardinality({t \in LineStarts(x) : t < s}) = i - 1

\* The i-th line of a text, without its newline.
Line(x, i) ==
  LET s == LineStart(x, i)
      tail == SubSeq(x, s, Len(x))
  IN SubSeq(tail, 1, Find(tail, LF) - 1)

\* The number of header lines of a well-formed text: the lines before the
\* first empty line.
HeaderCount(x) ==
  LET blank == {s \in LineStarts(x) : s <= Len(x) /\ x[s] = LF}
      first == CHOOSE s \in blank : \A t \in blank : s <= t
  IN Cardinality({t \in LineStarts(x) : t < first})

\* Zero or more header lines "key value\n" (key not empty) and nothing else.
RECURSIVE IsHeaderBlock(_)
IsHeaderBlock(x) ==
  \/ x = << >>
  \/ LET sp == Find(x, SP)
         lb == Find(x, LF)
     IN sp > 1 /\ lb > sp /\ IsHeaderBlock(SubSeq(x, lb + 1, Len(x)))

\* A text that runs out where a line is expected: header lines, then a rest
\* without a newline.
RunsOut(x) ==
  LET lfs == {k \in 1..Len(x) : x[k] = LF}
      lastLF == IF lfs = {} THEN 0 ELSE CHOOSE k \in lfs : \A j \in lfs : j <= k
  IN IsHeaderBlock(SubSeq(x, 1, lastLF))

\* C13: for a text of header lines h1..hn and a blank line, parse returns n
\* header entries in document order (key and value of the i-th line at place
\* i, repeated keys kept), then the message entry; a text that runs out
\* without a newline at the current position fails with Truncated.
C13_OrderAndDuplicates ==
  /\ (last.op = "kvlm_parser" /\ IsWellFormedKvlm(last.arg.content))
       => LET x == last.arg.content
              n == HeaderCount(x)
          IN /\ last.out.tag = "Ok"
             /\ Len(last.out.kvv) = n + 1
             /\ \A i \in 1..n :
                  LET h == Line(x, i)
                  IN last.out.kvv[i] = <<SubSeq(h, 1, Find(h, SP) - 1),
                                         SubSeq(h, Find(h, SP) + 1, Len(h))>>
             /\ last.out.kvv[n + 1]
                  = <<<< >>, SubSeq(x, LineStart(x, n + 1) + 1, Len(x))>>
  /\ (last.op = "kvlm_parser" /\ RunsOut(last.arg.content))
       => last.out = Err("Could not find a new line break, content is malformed")

\* A text with two header lines of the same key has been parsed into three
\* entries.
C13_Witness ==
  /\ last.op = "kvlm_parser"
  /\ IsWellFormedKvlm(last.arg.content)
  /\ last.out.tag = "Ok"
  /\ Len(last.out.kvv) = 3
  /\ last.out.kvv[1][1] = last.out.kvv[2][1]
  /\ last.out.kvv[1][2] # last.out.kvv[2][2]

(***************************************************************************)
(* Repositories in a directory tree: create, repo_find, object_write       *)
(***************************************************************************)
\* A directory tree with no repository: /w, /w/s and a regular file /f.
BareTree ==
  [dirs |-> {<< >>, <<"w">>, <<"w", "s">>},
   files |-> [p \in {<<"f">>} |-> <<"x">>]]

\* create is called on the root, a directory, a regular file and a path that
\* does not exist.
CreatePaths == {<< >>, <<"w">>, <<"f">>, <<"n">>}

FindPaths == {<< >>, <<"w">>, <<"w", "s">>, <<"w", "s", "..">>, <<"f">>, <<"n">>}

Worktrees == {<< >>, <<"w">>, <<"n">>}

RepoObjects ==
  {[variant |-> "Blob", content |-> << >>],
   [variant |-> "Tree", content |-> << >>],
   [variant |-> "Blob", content |-> TenBytes]}

InitRepo ==
  /\ fs = BareTree
  /\ last = [op |-> "init", arg |-> << >>, out |-> << >>]
  /\ pc = NoCalls

NextRepo ==
  \/ \E p \in CreatePaths : CreateRepo(p)
  \/ \E p \in FindPaths : FindRepo(p)
  \/ \E t \in Worktrees, o \in RepoObjects, w \in BOOLEAN :
       WriteObject(t, o, w, MaxRepoFiles)

SpecRepo == InitRepo /\ [][NextRepo]_vars

\* The longest of a non-empty set of paths.
Longest(paths) == CHOOSE q \in paths : \A r \in paths : Len(r) <= Len(q)

\* The ancestor-or-self directories of a canonical path that hold a .got dir.
RepoAncestors(f, c) == {q \in Prefixes(c) : IsDir(f, q \o <<GOT_DIR>>)}

\* C7 (as claimed): discover(start) returns a handle rooted at the nearest
\* ancestor-or-self directory of the canonicalized start path that holds the
\* metadata directory, and the none outcome when no directory of the ancestry
\* holds one.
C7_DiscoverNearest ==
  (last.op = "repo_find" /\ Canonicalize(fs, last.arg.path).ok)
    => LET found == RepoAncestors(fs, Canonicalize(fs, last.arg.path).path)
       IN last.out = IF found = {} THEN [tag |-> "None"]
                     ELSE [tag |-> "Some", repo |-> Handle(Longest(found))]

\* What the code does: the same, but a directory with no parent (the root) is
\* never taken for a repository.
C7_ObservedBelowRoot ==
  (last.op = "repo_find" /\ Canonicalize(fs, last.arg.path).ok)
    => LET found == RepoAncestors(fs, Canonicalize(fs, last.arg.path).path)
                      \ {<< >>}
       IN last.out = IF found = {} THEN [tag |-> "None"]
                     ELSE [tag |-> "Some", repo |-> Handle(Longest(found))]

\* The metadata directory that create(path) leaves: its subdirectories and
\* its three files.
SkeletonDirs(path) ==
  {path \o <<GOT_DIR>> \o d :
     d \in {<<"branches">>, <<"objects">>, <<"refs", "tags">>, <<"refs", "heads">>}}

AlreadyCreated(f, path) ==
  /\ IsDir(f, path \o <<GOT_DIR>>)
  /\ SkeletonDirs(path) \subseteq f.dirs
  /\ \A n \in {"HEAD", "description", "config"} :
       IsFile(f, path \o <<GOT_DIR, n>>)

\* C8: create(path) on an already created repository succeeds, leaves every
\* directory and every file (the stored object files too) as it was, and HEAD,
\* description and config hold what the first call wrote.
C8_IdempotentCreate ==
  [][(last'.op = "create" /\ AlreadyCreated(fs, last'.arg.path))
       => /\ last'.out = [tag |-> "Ok", repo |-> Handle(last'.arg.path)]
          /\ fs.dirs \subseteq fs'.dirs
          /\ \A p \in DOMAIN fs.files :
               IsFile(fs', p) /\ fs'.files[p] = fs.files[p]
          /\ LET got == last'.arg.path \o <<GOT_DIR>>
             IN /\ fs'.files[got \o <<"HEAD">>] = HeadText
                /\ fs'.files[got \o <<"description">>] = DescriptionText
                /\ fs'.files[got \o <<"config">>] = DefaultConfigText]_vars

\* create has been called again on a repository that holds an object file.
C8_Witness ==
  /\ last.op = "create"
  /\ last.arg.existed
  /\ last.out.tag = "Ok"
  /\ \E p \in ObjectFiles(fs) :
       SubSeq(p, 1, Len(last.arg.path) + 1) = last.arg.path \o <<GOT_DIR>>

\* C10: every object file sits at objects/<first 2 hex>/<remaining 38 hex> of
\* the digest of the frame it holds, and object_read looks that digest up at
\* this very path.
C10_ShardedLayout ==
  \A p \in ObjectFiles(fs) :
    LET i == CHOOSE i \in 1..(Len(p) - 1) : p[i] = GOT_DIR /\ p[i + 1] = "objects"
        rel == SubSeq(p, i + 1, Len(p))
        frame == ZlibDecode(fs.files[p])
        d == Sha1Hex(frame.bytes)
    IN /\ frame.ok
       /\ rel = <<"objects", Join(SubSeq(d, 1, 2)), Join(SubSeq(d, 3, 40))>>
       /\ p = ReadPathOf(SubSeq(p, 1, i - 1), d)

\* Two objects have been written, into different directories of objects/.
C10_Witness ==
  /\ last.op = "object_write"
  /\ last.arg.actually_write
  /\ last.out.tag = "Ok"
  /\ IsFile(fs, ReadPathOf(last.arg.worktree, last.out.hash))
  /\ \E p, q \in ObjectFiles(fs) : p[Len(p) - 1] # q[Len(q) - 1]

(***************************************************************************)
(* repo_find taken one call at a time: the Repository Locator              *)
(***************************************************************************)
\* A tree whose directory /w/s holds a metadata directory without a config
\* file (Repository::new(path, false) panics on it).
HalfMadeTree == [BareTree EXCEPT !.dirs = @ \cup {<<"w", "s", GOT_DIR>>}]

Idle == [state |-> "Idle", path |-> << >>]

\* One call of repo_find(path): what the locator is after it.  The recursive
\* call of line 155 is the state Searching(parent).
RepoFindStep(f, path) ==
  LET c == Canonicalize(f, path)
      canonical_path == c.path
      maybe_got_path == IsDir(f, canonical_path \o <<GOT_DIR>>)
      new == RepoNew(f, canonical_path, FALSE)
  IN IF ~c.ok
     THEN [state |-> "Panicked", path |-> path,
           out |-> Panic("Could not convert path to canonical")]
     ELSE IF ~HasParent(canonical_path)
     THEN [state |-> "Absent", path |-> canonical_path, out |-> [tag |-> "None"]]
     ELSE IF maybe_got_path
     THEN IF new.tag = "panic"
          THEN [state |-> "Panicked", path |-> canonical_path, out |-> new]
          ELSE [state |-> "Found", path |-> canonical_path,
                out |-> [tag |-> "Some", repo |-> new.repo]]
     ELSE [state |-> "Searching", path |-> Parent(canonical_path),
           out |-> [tag |-> "running"]]

\* The caller calls repo_find(path): the run is at Searching(path).
StartFind(path) ==
  /\ pc.state # "Searching"
  /\ pc' = [state |-> "Searching", path |-> path]
  /\ last' = [op |-> "repo_find", arg |-> [path |-> path],
              out |-> [tag |-> "running"]]
  /\ UNCHANGED fs

\* The body of repo_find runs on the path the run is at.
StepFind ==
  /\ pc.state = "Searching"
  /\ LET next == RepoFindStep(fs, pc.path)
     IN /\ pc' = [state |-> next.state, path |-> next.path]
        /\ last' = [last EXCEPT !.out = next.out]
  /\ UNCHANGED fs

InitFind ==
  /\ fs \in {BareTree, HalfMadeTree}
  /\ last = [op |-> "init", arg |-> << >>, out |-> << >>]
  /\ pc = Idle

\* Calls run to completion on the calling thread: create is called between
\* two runs of repo_find, never during one.
NextFind ==
  \/ \E p \in FindPaths : StartFind(p)
  \/ StepFind
  \/ (pc.state # "Searching" /\ \E p \in CreatePaths : CreateRepo(p))

SpecFind == InitFind /\ [][NextFind]_vars

\* repo_find returns or recurses once it is called.
SpecFindFair == SpecFind /\ WF_vars(StepFind)

\* The run is at Searching(path), path can be made canonical, and a metadata
\* directory at it, if any, holds a configuration that loads.
SearchingLoadable ==
  /\ pc.state = "Searching"
  /\ Canonicalize(fs, pc.path).ok
  /\ LET p == Canonicalize(fs, pc.path).path
     IN IsDir(fs, p \o <<GOT_DIR>>) => RepoNew(fs, p, FALSE).tag = "Ok"

\* C14 (as claimed): Searching(path) moves to Found exactly when the metadata
\* subdirectory of path is a directory (with a handle rooted at path), to
\* Searching(parent) otherwise, and to Absent only when path has no parent and
\* holds no metadata directory; there are no other states.
C14_LocatorMachine ==
  [][SearchingLoadable
       => LET p == Canonicalize(fs, pc.path).path
              got == IsDir(fs, p \o <<GOT_DIR>>)
          IN /\ pc'.state \in {"Searching", "Found", "Absent"}
             /\ (pc'.state = "Found") <=> got
             /\ (pc'.state = "Found")
                  => last'.out = [tag |-> "Some", repo |-> Handle(p)]
             /\ (pc'.state = "Searching")
                  => (HasParent(p) /\ pc'.path = Parent(p))
             /\ (pc'.state = "Absent") <=> (~HasParent(p) /\ ~got)]_vars

\* What the code does: the same machine, but a path with no parent always
\* moves to Absent, whether or not it holds a metadata directory.
C14_ObservedRootAbsent ==
  [][SearchingLoadable
       => LET p == Canonicalize(fs, pc.path).path
              got == IsDir(fs, p \o <<GOT_DIR>>)
          IN /\ pc'.state \in {"Searching", "Found", "Absent"}
             /\ (pc'.state = "Found") <=> (got /\ HasParent(p))
             /\ (pc'.state = "Found")
                  => last'.out = [tag |-> "Some", repo |-> Handle(p)]
             /\ (pc'.state = "Searching")
                  => (HasParent(p) /\ pc'.path = Parent(p))
             /\ (pc'.state = "Absent") <=> ~HasParent(p)]_vars

\* What the code does: every run ends, in Found, in Absent or in a panic.
C14_ObservedRunEnds ==
  (pc.state = "Searching") ~> (pc.state \in {"Found", "Absent", "Panicked"})

\* What the code does: a finished run has returned what repo_find, taken
\* whole, returns for the path it was called with.
C14_ObservedSameAsWhole ==
  (pc.state \in {"Found", "Absent", "Panicked"} /\ last.op = "repo_find")
    => last.out = RepoFind(fs, last.arg.path)

(***************************************************************************)
(* The object types of the source: frames and digests                      *)
(***************************************************************************)
\* object/blob.rs, impl Serialise for Blob
BlobSerialise(content) == content

BlobEncodedHeader(content) ==
  <<"b", "l", "o", "b">> \o <<SP>>
    \o ToDigits(Len(BlobSerialise(content))) \o <<NUL>>

BlobContentWithHeaders(content) ==
  BlobEncodedHeader(content) \o BlobSerialise(content)

BlobHash(content) == Sha1Hex(BlobContentWithHeaders(content))

\* object/tree.rs, impl Serialise for Tree
TreeSerialise(content) == content

TreeEncodedHeader(content) ==
  <<"b", "l", "o", "b">> \o <<SP>>
    \o ToDigits(Len(TreeSerialise(content))) \o <<NUL>>

TreeContentWithHeaders(content) ==
  TreeEncodedHeader(content) \o TreeSerialise(content)

TreeHash(content) == Sha1Hex(TreeContentWithHeaders(content))

\* objects/blob.rs, impl Blob
ObjectsBlobEncodedHeader(content) ==
  <<"b", "l", "o", "b">> \o <<SP>> \o ToDigits(Len(content)) \o <<NUL>>

ObjectsBlobContentWithHeaders(content) ==
  ObjectsBlobEncodedHeader(content) \o content

ObjectsBlobHash(content) == Sha1Hex(ObjectsBlobContentWithHeaders(content))

\* The longest payload framed.
MaxPayloadLen == 2

PayloadBytes == {"a", "b", SP, NUL}

FramedPayloads == UNION {[1..n -> PayloadBytes] : n \in 0..MaxPayloadLen}

\* content_with_headers() and hash() of a GitObject
FrameGitObject(variant, content) ==
  /\ last' = [op |-> "hash",
              arg |-> [module |-> "git_object", type |-> variant,
                       content |-> content],
              out |-> [frame |-> ContentWithHeaders([variant |-> variant,
                                                     content |-> content]),
                       hash |-> Hash([variant |-> variant,
                                      content |-> content])]]
  /\ UNCHANGED <<fs, pc>>

\* content_with_headers() and hash() of an object::Blob
FrameBlob(content) ==
  /\ last' = [op |-> "hash",
              arg |-> [module |-> "object", type |-> "Blob",
                       content |-> content],
              out |-> [frame |-> BlobContentWithHeaders(content),
                       hash |-> BlobHash(content)]]
  /\ UNCHANGED <<fs, pc>>

\* content_with_headers() and hash() of an object::Tree
FrameTree(content) ==
  /\ last' = [op |-> "hash",
              arg |-> [module |-> "object", type |-> "Tree",
                       content |-> content],
              out |-> [frame |-> TreeContentWithHeaders(content),
                       hash |-> TreeHash(content)]]
  /\ UNCHANGED <<fs, pc>>

\* content_with_headers() and hash() of an objects::Blob
FrameObjectsBlob(content) ==
  /\ last' = [op |-> "hash",
              arg |-> [module |-> "objects", type |-> "Blob",
                       content |-> content],
              out |-> [frame |-> ObjectsBlobContentWithHeaders(content),
                       hash |-> ObjectsBlobHash(content)]]
  /\ UNCHANGED <<fs, pc>>

InitTypes ==
  /\ fs = EmptyFs
  /\ last = [op |-> "init", arg |-> << >>, out |-> << >>]
  /\ pc = NoCalls

NextTypes ==
  \/ \E v \in Variants, c \in FramedPayloads : FrameGitObject(v, c)
  \/ \E c \in FramedPayloads : FrameBlob(c)
  \/ \E c \in FramedPayloads : FrameTree(c)
  \/ \E c \in FramedPayloads : FrameObjectsBlob(c)

SpecTypes == InitTypes /\ [][NextTypes]_vars

\* The frame and the digest of every other object type of the source with
\* the same payload.
FramesOfOtherTypes(type, content) ==
  {[type |-> v,
    frame |-> ContentWithHeaders([variant |-> v, content |-> content]),
    hash |-> Hash([variant |-> v, content |-> content])] :
     v \in Variants \ {type}}
  \cup (IF type = "Blob" THEN {}
        ELSE {[type |-> "Blob", frame |-> BlobContentWithHeaders(content),
               hash |-> BlobHash(content)],
              [type |-> "Blob", frame |-> ObjectsBlobContentWithHeaders(content),
               hash |-> ObjectsBlobHash(content)]})
  \cup (IF type = "Tree" THEN {}
        ELSE {[type |-> "Tree", frame |-> TreeContentWithHeaders(content),
               hash |-> TreeHash(content)]})

\* C15 (as claimed): for every object type of the source, the framed bytes
\* start with the name of that type ("commit", "tree", "tag", "blob"), the
\* digest is the digest of these bytes, and no object of another type with
\* the same payload has the same framed bytes or the same digest.
C15_TypeNameInvariant ==
  last.op = "hash"
    => /\ last.out.frame = FramedBytes(last.arg.type, last.arg.content)
       /\ last.out.hash = Sha1Hex(FramedBytes(last.arg.type, last.arg.content))
       /\ \A o \in FramesOfOtherTypes(last.arg.type, last.arg.content) :
            o.frame # last.out.frame /\ o.hash # last.out.hash

\* What the code does: the claim holds for the four GitObject variants and
\* for both Blob structs among themselves; an object::Tree is framed and
\* hashed as the blob of the same payload.
C15_ObservedTreeAsBlob ==
  last.op = "hash"
    => IF last.arg.module = "object" /\ last.arg.type = "Tree"
       THEN /\ last.out.frame = FramedBytes("Blob", last.arg.content)
            /\ last.out.hash = Sha1Hex(FramedBytes("Blob", last.arg.content))
       ELSE /\ last.out.frame = FramedBytes(last.arg.type, last.arg.content)
            /\ last.out.hash
                 = Sha1Hex(FramedBytes(last.arg.type, last.arg.content))
            /\ \A o \in FramesOfOtherTypes(last.arg.type, last.arg.content) :
                 (o.frame = last.out.frame \/ o.hash = last.out.hash)
                   => o.frame = TreeContentWithHeaders(last.arg.content)

(***************************************************************************)
(* Two writers: object_write taken one file-system call at a time          *)
(***************************************************************************)
\* File::create: creates the file or truncates it to no bytes; fails when the
\* path is a directory or its parent is not one.
FileCreate(f, p) == WriteFile(f, p, << >>)

\* A faulty write that appends to the file wherever the writer's own offset
\* is (as if the file were opened in append mode).
FileWriteAppend(f, p, offset, chunk) ==
  [f EXCEPT !.files[p] = @ \o chunk]

\* Write::write on the File at the writer's own offset: the bytes of the file
\* from the offset on are replaced; a gap left by a truncation reads as zero
\* bytes.
FileWriteAt(f, p, offset, chunk) ==
  LET old == f.files[p]
      len == IF Len(old) > offset + Len(chunk) THEN Len(old)
             ELSE offset + Len(chunk)
  IN [f EXCEPT !.files[p] =
        [i \in 1..len |->
           IF i > offset /\ i <= offset + Len(chunk) THEN chunk[i - offset]
           ELSE IF i <= Len(old) THEN old[i]
           ELSE NUL]]

Writers == {1, 2}

RaceObjects ==
  {[variant |-> "Blob", content |-> << >>],
   [variant |-> "Tree", content |-> << >>]}

\* The repository the writers share, before any object is stored.
FreshStore == Create(EmptyFs, StoreTree).fs

\* The file a writer's object_write stores its object in.
WriterFile(w) ==
  RepoPath(Handle(StoreTree), ObjectWriteRelPath(Hash(pc[w].object)))

\* The bytes the writer's ZlibEncoder hands to the file.
WriterBytes(w) == ZlibEncode(ContentWithHeaders(pc[w].object))

\* let hash = object.hash(); if actually_write { ... }
WriterHash(w) ==
  /\ pc[w].at = "start"
  /\ pc' = [pc EXCEPT ![w].at = IF pc[w].actually_write THEN "dirs"
                                 ELSE "return"]
  /\ UNCHANGED <<fs, last>>

\* self.repo_file(..., true) and create_dir_all(file_path.parent())
WriterDirs(w) ==
  /\ pc[w].at = "dirs"
  /\ LET file_path == RepoFile(fs, Handle(StoreTree),
                               ObjectWriteRelPath(Hash(pc[w].object)), TRUE)
         dirs == CreateDirAll(file_path.fs, Parent(file_path.path))
     IN /\ fs' = dirs.fs
        /\ pc' = [pc EXCEPT ![w].at = IF file_path.tag = "panic" \/ ~dirs.ok
                                       THEN "panicked" ELSE "create"]
  /\ UNCHANGED last

\* File::create(file_path).  The field truncated of another writer records
\* that its file lost bytes it had written (history only: no step reads it).
WriterCreate(w) ==
  /\ pc[w].at = "create"
  /\ LET file == FileCreate(fs, WriterFile(w))
     IN /\ fs' = file.fs
        /\ pc' = [v \in Writers |->
                   IF v = w
                   THEN [pc[w] EXCEPT !.at = IF file.ok THEN "write"
                                             ELSE "panicked",
                                      !.offset = 0]
                   ELSE [pc[v] EXCEPT !.truncated =
                           @ \/ (/\ file.ok
                                 /\ pc[v].at = "write" /\ pc[v].offset > 0
                                 /\ WriterFile(v) = WriterFile(w))]]
  /\ UNCHANGED last

\* The encoder passes the next n compressed bytes to the file (in write, or
\* when it is dropped at the end of the block).
WriterWrite(w, n) ==
  /\ pc[w].at = "write"
  /\ pc[w].offset + n <= Len(WriterBytes(w))
  /\ fs' = FileWriteAt(fs, WriterFile(w), pc[w].offset,
                       SubSeq(WriterBytes(w), pc[w].offset + 1,
                              pc[w].offset + n))
  /\ pc' = [pc EXCEPT ![w].offset = @ + n,
                      ![w].at = IF pc[w].offset + n = Len(WriterBytes(w))
                                THEN "return" ELSE "write"]
  /\ UNCHANGED last

\* return hash.to_owned()
WriterReturn(w) ==
  /\ pc[w].at = "return"
  /\ pc' = [pc EXCEPT ![w].at = "done",
                      ![w].out = [tag |-> "Ok", hash |-> Hash(pc[w].object)]]
  /\ last' = [op |-> "object_write",
              arg |-> [worktree |-> StoreTree, object |-> pc[w].object,
                       actually_write |-> pc[w].actually_write],
              out |-> [tag |-> "Ok", hash |-> Hash(pc[w].object)]]
  /\ UNCHANGED fs

InitRace ==
  /\ fs \in {FreshStore}
              \cup {ObjectWrite(FreshStore, Handle(StoreTree), o, TRUE).fs :
                      o \in RaceObjects}
  /\ last = [op |-> "init", arg |-> << >>, out |-> << >>]
  /\ pc \in [Writers -> [at : {"start"}, object : RaceObjects,
                         actually_write : BOOLEAN, offset : {0},
                         truncated : {FALSE}, out : {[tag |-> "running"]}]]

NextRace ==
  \E w \in Writers :
    \/ WriterHash(w)
    \/ WriterDirs(w)
    \/ WriterCreate(w)
    \/ \E n \in 1..Len(WriterBytes(w)) : WriterWrite(w, n)
    \/ WriterReturn(w)

SpecRace == InitRace /\ [][NextRace]_vars

\* Both writers have run write(object, persist = true) for the same object
\* to the end.
BothWroteSame ==
  /\ \A w \in Writers : pc[w].at = "done" /\ pc[w].actually_write
  /\ pc[1].object = pc[2].object

\* C16: when two writers run write(object, persist = true) for the same
\* object, in every interleaving of their steps, both return the same digest,
\* and once both have finished the target file holds byte for byte what a
\* single write leaves, so that a read of the digest returns the same as
\* after one write.
C16_BenignRace ==
  BothWroteSame
    => LET object == pc[1].object
           one == ObjectWrite(FreshStore, Handle(StoreTree), object, TRUE)
           path == ReadPathOf(StoreTree, one.out.hash)
       IN /\ pc[1].out = one.out
          /\ pc[2].out = one.out
          /\ IsFile(fs, path)
          /\ fs.files[path] = one.fs.files[path]
          /\ ObjectRead(fs, Handle(StoreTree), one.out.hash)
               = ObjectRead(one.fs, Handle(StoreTree), one.out.hash)

\* Both writers have finished, and on the way the second had truncated the
\* file while the first was in the middle of writing it; the file is whole.
C16_Witness ==
  /\ BothWroteSame
  /\ pc[1].truncated
  /\ fs.files[WriterFile(1)] = WriterBytes(1)
  /\ ObjectRead(fs, Handle(StoreTree), pc[1].out.hash).tag = "Ok"

=============================================================================
